---- MODULE Spec2Model ----
(***************************************************************************)
(* Model of the RAG ingestion pipeline of agent-starter-pack:              *)
(*   app/embedding.py       the Embedder  (generate_embeddings)            *)
(*   app/indexing.py        the Indexer   (upload_data_to_gcs,             *)
(*                                         create_and_deploy_index)        *)
(*   app/data_ingestion.py  the Collector (ingest_urls)                    *)
(* Each stage is a standalone sequential process; each has its own         *)
(* specification over the variables of that stage.                         *)
(***************************************************************************)
EXTENDS Integers, Sequences, FiniteSets, TLC

\* ------------------------------------------------------------------------
\* Bounds of the model
\* ------------------------------------------------------------------------
MaxRecords == 7
MaxBatchSize == 5
MaxRuns == 2
MaxTime == 1
MaxUrls == 3
MaxChunks == 2
MaxSets == 2
MaxNeighbors == 2

\* ------------------------------------------------------------------------
\* State
\* ------------------------------------------------------------------------
\* The Embedder (app/embedding.py)
VARIABLES
    input,        \* the lines of INGESTED_DATA_FILE, as chunk records
    batchSize,    \* EMBEDDING_BATCH_SIZE
    pos,          \* number of input lines consumed by the for loop
    batch,        \* the local list `batch`
    out,          \* the records written to EMBEDDED_DATA_FILE so far
    epc,          \* position of generate_embeddings
    final,        \* TRUE while the batch in hand is the one of lines 78-86
    attempt,      \* service calls made so far for the batch in hand
    delay,        \* the local `delay` of get_embeddings_with_retry
    sleeps,       \* the time.sleep arguments for the batch in hand
    embeddings,   \* the response for the batch in hand
    j,            \* index of the enumerate loop writing the batch
    totalCalls,   \* number of model.get_embeddings calls of the run
    requests,     \* the batches (as sequences of ids) sent to the service
    completed,    \* the batches (as sequences of ids) written in full
    abandoned,    \* the batches (as sequences of ids) skipped after retries
    lastDone      \* outcome of the batch that finished last

embedVars == <<input, batchSize, pos, batch, out, epc, final, attempt, delay,
               sleeps, embeddings, j, totalCalls, requests, completed,
               abandoned, lastDone>>

\* The Indexer (app/indexing.py)
VARIABLES
    bucketExists, \* whether the bucket GCS_BUCKET_NAME exists
    objects,      \* content of the object at each destination path, 0: none
    indexes,      \* the indexes of the project, in list() order
    endpoints,    \* the index endpoints of the project, in list() order
    now,          \* int(time.time())
    ipc,          \* position of the run of indexing.py
    cur,          \* the run in hand, or the run that ended last
    prev,         \* the run before it
    myIndex,      \* the local my_index (an index id, 0: None)
    myEndpoint,   \* the local my_endpoint (an endpoint id, 0: None)
    gcsUri,       \* the value upload_data_to_gcs returned
    runs,         \* number of runs started
    deployIds     \* the deployed_index_id of every deploy_index call

indexVars == <<bucketExists, objects, indexes, endpoints, now, ipc, cur, prev,
               myIndex, myEndpoint, gcsUri, runs, deployIds>>

\* The Collector (app/data_ingestion.py)
VARIABLES
    urls,         \* the list given to ingest_urls
    upos,         \* number of urls the for loop is done with
    ingested,     \* the records in INGESTED_DATA_FILE
    cpc,          \* position of ingest_urls
    nextId,       \* stands for the next uuid4
    fetches,      \* the fetcher called for each url so far, with its result
    before        \* what the output file held when the run started

collectVars == <<urls, upos, ingested, cpc, nextId, fetches, before>>

\* The retrieval tool (VectorSearchTool.execute in app/agent.py)
VARIABLES
    rpc,          \* position of execute
    response,     \* response.nearest_neighbors: one result set per entry
    result,       \* the value execute returned, as a sequence of text pieces
    rerror        \* the exception that left execute ("none": none)

retrieveVars == <<rpc, response, result, rerror>>

vars == <<embedVars, indexVars, collectVars, retrieveVars>>

\* Each stage is a process of its own: its steps leave the other stages'
\* state alone.
EmbedFrame == UNCHANGED <<indexVars, collectVars, retrieveVars>>
IndexFrame == UNCHANGED <<embedVars, collectVars, retrieveVars>>
CollectFrame == UNCHANGED <<embedVars, indexVars, retrieveVars>>
RetrieveFrame == UNCHANGED <<embedVars, indexVars, collectVars>>

\* ------------------------------------------------------------------------
\* Embedder state (app/embedding.py)
\* ------------------------------------------------------------------------

\* range(6): one try more
OneMoreAttempt == 5 + 1

\* range(5), the number of tries of get_embeddings_with_retry
MaxAttempts == 5

\* delay = 1
InitialDelay == 1

NextDelayLinear(d) == d + 1

\* delay *= 2
NextDelay(d) == d * 2

\* A chunk record of the ingested file; the id stands for the uuid, the text
\* of record i is a value that determines its vector.
ChunkRecord(i) == [id |-> i, text |-> 10 + i]

\* The embedding service: one vector per text, same order and length.
Vector(t) == 100 + t

EmbedResponse(texts) == [k \in 1..Len(texts) |-> Vector(texts[k])]

\* texts = [item["text"] for item in batch]
Texts(b) == [k \in 1..Len(b) |-> b[k].text]

Ids(s) == [k \in 1..Len(s) |-> s[k].id]

\* item["embedding"] = embeddings[j].values
WithEmbedding(item, embs, k) ==
    [id |-> item.id, text |-> item.text, embedding |-> embs[k]]

ItemAtReversed(b, k) == b[Len(b) + 1 - k]

\* for j, item in enumerate(batch): the item of turn k
ItemAt(b, k) == b[k]

WriteLineTruncating(file, rec) == <<rec>>

\* outfile.write(json.dumps(item) + '\n') on the file opened once, in 'w' mode
WriteLine(file, rec) == Append(file, rec)

\* except Exception as e: in generate_embeddings catches what
\* get_embeddings_with_retry raises
CatchesRetryFailure == TRUE

BatchFullStrict(b) == Len(b) > batchSize

\* if len(batch) >= EMBEDDING_BATCH_SIZE
BatchFull(b) == Len(b) >= batchSize

NoOutcome == [ok |-> FALSE, calls |-> 0, sleeps |-> <<>>, ids |-> <<>>]

EmbedInit ==
    /\ \E n \in 0..MaxRecords : input = [i \in 1..n |-> ChunkRecord(i)]
    /\ batchSize \in 1..MaxBatchSize
    /\ pos = 0
    /\ batch = <<>>
    /\ out = <<>>
    /\ epc = "read"
    /\ final = FALSE
    /\ attempt = 0
    /\ delay = InitialDelay
    /\ sleeps = <<>>
    /\ embeddings = <<>>
    /\ j = 1
    /\ totalCalls = 0
    /\ requests = <<>>
    /\ completed = <<>>
    /\ abandoned = <<>>
    /\ lastDone = NoOutcome

\* Entering get_embeddings_with_retry for the batch b.
EnterRetry(b, isFinal) ==
    /\ epc' = "call"
    /\ final' = isFinal
    /\ attempt' = 0
    /\ delay' = InitialDelay
    /\ sleeps' = <<>>
    /\ requests' = Append(requests, Ids(b))

\* for line in infile: one more line is read and appended to the batch.
ReadLine ==
    /\ EmbedFrame
    /\ epc = "read"
    /\ pos < Len(input)
    /\ pos' = pos + 1
    /\ batch' = Append(batch, input[pos + 1])
    /\ IF BatchFull(batch')
         THEN EnterRetry(batch', FALSE)
         ELSE UNCHANGED <<epc, final, attempt, delay, sleeps, requests>>
    /\ UNCHANGED <<input, batchSize, out, embeddings, j, totalCalls,
                   completed, abandoned, lastDone>>

\* The for loop ends; `if batch:` decides whether a last batch is processed.
EndOfInput ==
    /\ EmbedFrame
    /\ epc = "read"
    /\ pos = Len(input)
    /\ IF batch # <<>>
         THEN EnterRetry(batch, TRUE)
         ELSE /\ epc' = "done"
              /\ UNCHANGED <<final, attempt, delay, sleeps, requests>>
    /\ UNCHANGED <<input, batchSize, pos, batch, out, embeddings, j,
                   totalCalls, completed, abandoned, lastDone>>

AfterBatchNoReset ==
    IF final
      THEN epc' = "done" /\ batch' = batch
      ELSE epc' = "read" /\ batch' = batch

\* What follows a batch: `batch = []` and the loop again, or the end of the
\* with block after the last batch.
AfterBatch ==
    IF final
      THEN epc' = "done" /\ batch' = batch
      ELSE epc' = "read" /\ batch' = <<>>

\* The response assigned instead of returned: the for loop goes on after
\* try k.
AfterAssign(k) == IF k < MaxAttempts THEN "call" ELSE "write"

\* return model.get_embeddings(texts): try k leaves the for loop and the
\* function at once, the caller's write loop is next.
AfterReturn(k) == "write"

\* model.get_embeddings(texts) returns: get_embeddings_with_retry returns it.
CallSucceeds ==
    /\ EmbedFrame
    /\ epc = "call"
    /\ attempt < MaxAttempts
    /\ attempt' = attempt + 1
    /\ totalCalls' = totalCalls + 1
    /\ embeddings' = EmbedResponse(Texts(batch))
    /\ j' = 1
    /\ epc' = AfterReturn(attempt')
    /\ UNCHANGED <<input, batchSize, pos, batch, out, final, delay, sleeps,
                   requests, completed, abandoned, lastDone>>

\* model.get_embeddings(texts) raises: sleep, double the delay; after the
\* last try the function raises and generate_embeddings skips the batch.
CallFails ==
    /\ EmbedFrame
    /\ epc = "call"
    /\ attempt < MaxAttempts
    /\ attempt' = attempt + 1
    /\ totalCalls' = totalCalls + 1
    /\ sleeps' = Append(sleeps, delay)
    /\ delay' = NextDelay(delay)
    /\ IF attempt' >= MaxAttempts
         THEN IF CatchesRetryFailure
                THEN /\ AfterBatch
                     /\ abandoned' = Append(abandoned, Ids(batch))
                     /\ lastDone' = [ok |-> FALSE, calls |-> attempt',
                                     sleeps |-> sleeps', ids |-> Ids(batch)]
                ELSE /\ epc' = "crashed"
                     /\ UNCHANGED <<batch, abandoned, lastDone>>
         ELSE UNCHANGED <<epc, batch, abandoned, lastDone>>
    /\ UNCHANGED <<input, batchSize, pos, out, final, embeddings, j,
                   requests, completed>>

\* One turn of `for j, item in enumerate(batch)`: a record gets its vector
\* and is written to the output file.
WriteRecord ==
    /\ EmbedFrame
    /\ epc = "write"
    /\ j <= Len(batch)
    /\ out' = WriteLine(out, WithEmbedding(ItemAt(batch, j), embeddings, j))
    /\ IF j = Len(batch)
         THEN /\ AfterBatch
              /\ completed' = Append(completed, Ids(batch))
              /\ lastDone' = [ok |-> TRUE, calls |-> attempt,
                              sleeps |-> sleeps, ids |-> Ids(batch)]
              /\ j' = j
         ELSE /\ j' = j + 1
              /\ UNCHANGED <<epc, batch, completed, lastDone>>
    /\ UNCHANGED <<input, batchSize, pos, final, attempt, delay, sleeps,
                   embeddings, totalCalls, requests, abandoned>>

EmbedNext ==
    \/ ReadLine
    \/ EndOfInput
    \/ CallSucceeds
    \/ CallFails
    \/ WriteRecord


\* ------------------------------------------------------------------------
\* Indexer state (app/indexing.py)
\* ------------------------------------------------------------------------

\* Values of INDEX_DISPLAY_NAME, ENDPOINT_DISPLAY_NAME and EMBEDDED_DATA_FILE
\* that a run may be configured with, as sequences of characters.
IndexNames == { <<"r", "_", "i">>, <<"r", "i">> }
EndpointNames == { <<"e", "p">>, <<"e", "q">> }
Files == { "a.jsonl", "b.jsonl" }

\* The contents the local embedded data file may have when a run starts.
Contents == { 1, 2 }

NoRun == [idx |-> <<>>, ep |-> <<>>, file |-> "", data |-> 0, fresh |-> FALSE,
          found |-> "unknown", ops |-> {}, status |-> "none", endpoint |-> 0]

\* INDEX_DISPLAY_NAME.replace('_', '')
StripUnderscores(name) == SelectSeq(name, LAMBDA c : c # "_")

\* f"deployed_{INDEX_DISPLAY_NAME.replace('_', '')}_{int(time.time())}"
DeployedIndexId(name, t) == <<"deployed", StripUnderscores(name), t>>

\* os.path.join(destination_folder, os.path.basename(source_file)) in the
\* bucket: one destination path per file name.
DestinationPath(file) == file

ObjectNeverExists(path) == FALSE

ObjectHasSameContent(path) == objects[path] = cur.data

\* blob.exists()
ObjectExists(path) == objects[path] # 0

MatchesAnyName(res, name) == TRUE

\* index.display_name == INDEX_DISPLAY_NAME and
\* endpoint.display_name == ENDPOINT_DISPLAY_NAME
MatchesName(res, name) == res.name = name

\* The for ... break loops over list(): the id of the first resource with
\* the display name, 0 when there is none.
FirstMatch(list, name) ==
    LET hits == {k \in 1..Len(list) : MatchesName(list[k], name)}
    IN  IF hits = {} THEN 0
        ELSE list[CHOOSE k \in hits : \A h \in hits : k <= h].id

NeverDeployed(ix) == FALSE

\* my_index.deployed_indexes is not empty
AlreadyDeployed(ix) == ix.deployed # <<>>

AlwaysCreateIndex(found) == TRUE

\* if not my_index
NeedsNewIndex(found) == found = 0

IndexInit ==
    /\ bucketExists = FALSE
    /\ objects = [f \in Files |-> 0]
    /\ indexes = <<>>
    /\ endpoints = <<>>
    /\ now = 0
    /\ ipc = "idle"
    /\ cur = NoRun
    /\ prev = NoRun
    /\ myIndex = 0
    /\ myEndpoint = 0
    /\ gcsUri = ""
    /\ runs = 0
    /\ deployIds = <<>>

\* Time passes. The clock is read by step 6 alone, so the time that passes
\* during a run is let pass right before that step.
Tick ==
    /\ IndexFrame
    /\ ipc = "deploy"
    /\ now < MaxTime
    /\ now' = now + 1
    /\ UNCHANGED <<bucketExists, objects, indexes, endpoints, ipc, cur, prev,
                   myIndex, myEndpoint, gcsUri, runs, deployIds>>

\* python indexing.py is started with some configuration, on a local
\* embedded data file of some content.
StartRun ==
    /\ IndexFrame
    /\ ipc = "idle"
    /\ runs < MaxRuns
    /\ runs' = runs + 1
    /\ \E idx \in IndexNames, ep \in EndpointNames, f \in Files,
          d \in Contents :
          cur' = [idx |-> idx, ep |-> ep, file |-> f, data |-> d,
                  fresh |-> /\ FirstMatch(indexes, idx) = 0
                            /\ FirstMatch(endpoints, ep) = 0,
                  found |-> "unknown", ops |-> {}, status |-> "running",
                  endpoint |-> 0]
    /\ prev' = cur
    /\ ipc' = "upload"
    /\ myIndex' = 0
    /\ myEndpoint' = 0
    /\ gcsUri' = ""
    /\ UNCHANGED <<bucketExists, objects, indexes, endpoints, now, deployIds>>

\* upload_data_to_gcs: the bucket is created when get_bucket raises, the
\* file is uploaded when no object exists at the destination path.
UploadDataToGcs ==
    /\ IndexFrame
    /\ ipc = "upload"
    /\ LET path == DestinationPath(cur.file)
           made == IF bucketExists THEN {} ELSE {"create_bucket"}
           sent == IF ObjectExists(path) THEN {} ELSE {"upload"}
       IN  /\ bucketExists' = TRUE
           /\ objects' = IF ObjectExists(path) THEN objects
                         ELSE [objects EXCEPT ![path] = cur.data]
           /\ cur' = [cur EXCEPT !.ops = @ \cup made \cup sent]
           /\ gcsUri' = path
    /\ ipc' = "find_index"
    /\ UNCHANGED <<indexes, endpoints, now, prev, myIndex, myEndpoint, runs,
                   deployIds>>

\* Steps 1 and 2 of create_and_deploy_index: look the index up by display
\* name; return the endpoint of its first deployment when it has one.
FindIndex ==
    /\ IndexFrame
    /\ ipc = "find_index"
    /\ LET found == FirstMatch(indexes, cur.idx)
       IN  /\ myIndex' = found
           /\ IF found # 0 /\ AlreadyDeployed(indexes[found])
                THEN /\ cur' = [cur EXCEPT
                                  !.found = "deployed",
                                  !.status = "returned",
                                  !.endpoint =
                                      indexes[found].deployed[1].endpoint]
                     /\ ipc' = "idle"
                ELSE /\ cur' = [cur EXCEPT !.found =
                                  IF found = 0 THEN "none" ELSE "undeployed"]
                     /\ ipc' = IF NeedsNewIndex(found) THEN "create_index"
                                                       ELSE "find_endpoint"
    /\ UNCHANGED <<bucketExists, objects, indexes, endpoints, now, prev,
                   myEndpoint, gcsUri, runs, deployIds>>

\* Step 3: create_tree_ah_index and wait() succeed.
CreateIndex ==
    /\ IndexFrame
    /\ ipc = "create_index"
    /\ LET id == Len(indexes) + 1
       IN  /\ indexes' = Append(indexes,
                 [id |-> id, name |-> cur.idx, uri |-> gcsUri,
                  data |-> objects[gcsUri], deployed |-> <<>>])
           /\ myIndex' = id
    /\ cur' = [cur EXCEPT !.ops = @ \cup {"create_index"}]
    /\ ipc' = "find_endpoint"
    /\ UNCHANGED <<bucketExists, objects, endpoints, now, prev, myEndpoint,
                   gcsUri, runs, deployIds>>

RaiseWithRollback ==
    /\ IndexFrame
    /\ cur' = [cur EXCEPT !.status = "raised"]
    /\ ipc' = "idle"
    /\ indexes' = IF "create_index" \in cur.ops
                    THEN SelectSeq(indexes, LAMBDA ix : ix.name # cur.idx)
                    ELSE indexes
    /\ UNCHANGED <<bucketExists, objects, endpoints, now, prev,
                   myIndex, myEndpoint, gcsUri, runs, deployIds>>

\* The exception of a failed step leaves create_and_deploy_index and the
\* script: nothing catches it, nothing is undone.
Raise ==
    /\ IndexFrame
    /\ cur' = [cur EXCEPT !.status = "raised"]
    /\ ipc' = "idle"
    /\ UNCHANGED <<bucketExists, objects, indexes, endpoints, now, prev,
                   myIndex, myEndpoint, gcsUri, runs, deployIds>>

\* Step 3: create_tree_ah_index or wait() raises.
CreateIndexFails ==
    /\ ipc = "create_index"
    /\ Raise

\* Step 4: look the endpoint up by display name.
FindEndpoint ==
    /\ IndexFrame
    /\ ipc = "find_endpoint"
    /\ LET found == FirstMatch(endpoints, cur.ep)
       IN  /\ myEndpoint' = found
           /\ ipc' = IF found = 0 THEN "create_endpoint" ELSE "deploy"
    /\ cur' = [cur EXCEPT !.ops = @ \cup {"list_endpoints"}]
    /\ UNCHANGED <<bucketExists, objects, indexes, endpoints, now, prev,
                   myIndex, gcsUri, runs, deployIds>>

\* Step 5: MatchingEngineIndexEndpoint.create succeeds.
CreateEndpoint ==
    /\ IndexFrame
    /\ ipc = "create_endpoint"
    /\ LET id == Len(endpoints) + 1
       IN  /\ endpoints' = Append(endpoints, [id |-> id, name |-> cur.ep])
           /\ myEndpoint' = id
    /\ cur' = [cur EXCEPT !.ops = @ \cup {"create_endpoint"}]
    /\ ipc' = "deploy"
    /\ UNCHANGED <<bucketExists, objects, indexes, now, prev, myIndex,
                   gcsUri, runs, deployIds>>

\* Step 5: MatchingEngineIndexEndpoint.create raises.
CreateEndpointFails ==
    /\ ipc = "create_endpoint"
    /\ Raise

\* Step 6: deploy_index succeeds and my_endpoint is returned.
DeployIndex ==
    /\ IndexFrame
    /\ ipc = "deploy"
    /\ LET depId == DeployedIndexId(cur.idx, now)
       IN  /\ deployIds' = Append(deployIds, depId)
           /\ indexes' = [indexes EXCEPT ![myIndex].deployed =
                 Append(@, [endpoint |-> myEndpoint, depId |-> depId])]
    /\ cur' = [cur EXCEPT !.ops = @ \cup {"deploy"},
                          !.status = "returned",
                          !.endpoint = myEndpoint]
    /\ ipc' = "idle"
    /\ UNCHANGED <<bucketExists, objects, endpoints, now, prev, myIndex,
                   myEndpoint, gcsUri, runs>>

\* Step 6: deploy_index raises.
DeployIndexFails ==
    /\ IndexFrame
    /\ ipc = "deploy"
    /\ deployIds' = Append(deployIds, DeployedIndexId(cur.idx, now))
    /\ cur' = [cur EXCEPT !.ops = @ \cup {"deploy"}, !.status = "raised"]
    /\ ipc' = "idle"
    /\ UNCHANGED <<bucketExists, objects, indexes, endpoints, now, prev,
                   myIndex, myEndpoint, gcsUri, runs>>

IndexNext ==
    \/ Tick
    \/ StartRun
    \/ UploadDataToGcs
    \/ FindIndex
    \/ CreateIndex
    \/ CreateIndexFails
    \/ FindEndpoint
    \/ CreateEndpoint
    \/ CreateEndpointFails
    \/ DeployIndex
    \/ DeployIndexFails


\* ------------------------------------------------------------------------
\* Collector state (app/data_ingestion.py)
\* ------------------------------------------------------------------------

\* Urls as the netloc (a sequence of labels) and the rest.
UrlSet ==
    { [domain |-> <<"www", "youtube", "com">>, rest |-> "watch?v=1"],
      [domain |-> <<"github", "com">>, rest |-> "org/repo"],
      [domain |-> <<"google", "github", "io">>, rest |-> "docs"],
      [domain |-> <<"example", "com">>, rest |-> "a"] }

\* What a fetch can run into: requests.exceptions.RequestException (a
\* network error), or an exception of another class (the parser rejecting a
\* malformed response, a missing transcript, a url without "v=").
Exceptions == {"RequestException", "OtherException"}

\* `needle in domain`, on whole labels
Contains(domain, needle) ==
    \E k \in 0..(Len(domain) - Len(needle)) :
        SubSeq(domain, k + 1, k + Len(needle)) = needle

\* A dispatch without the elif: a repository url is scraped like a page.
FetcherWithoutRepository(url) ==
    IF Contains(url.domain, <<"youtube", "com">>) THEN "transcript"
    ELSE "scrape"

\* The if / elif / else of ingest_urls.
Fetcher(url) ==
    IF Contains(url.domain, <<"youtube", "com">>) THEN "transcript"
    ELSE IF Contains(url.domain, <<"github", "com">>) THEN "repository"
    ELSE "scrape"

\* except Exception as e: in get_youtube_transcript
TranscriptCatches(e) == TRUE

\* except requests.exceptions.RequestException as e: in scrape_web_page
ScrapeCatches(e) == e = "RequestException"

Catches(fetcher, e) ==
    IF fetcher = "transcript" THEN TranscriptCatches(e) ELSE ScrapeCatches(e)

\* The records of one url with the id generated once, outside the chunk loop.
ChunkRecordsOneId(url, firstId, n) ==
    [k \in 1..n |-> [id |-> firstId, text |-> k, source |-> url,
                     title |-> url.domain]]

\* The records written for one url: one per chunk, each with a fresh id.
ChunkRecords(url, firstId, n) ==
    [k \in 1..n |-> [id |-> firstId + k - 1, text |-> k, source |-> url,
                     title |-> url.domain]]

OldFiles == { <<>>, <<[id |-> 0, text |-> 1, source |-> "old",
                       title |-> <<"old">>]>> }

\* open(INGESTED_DATA_FILE, "a") would keep what the file holds.
OpenForAppending(file) == file

\* open(INGESTED_DATA_FILE, "w"): the file is truncated to nothing.
OpenForWriting(file) == <<>>

CollectInit ==
    /\ \E n \in 0..MaxUrls : urls \in [1..n -> UrlSet]
    /\ upos = 0
    /\ ingested \in OldFiles
    /\ before = ingested
    /\ cpc = "start"
    /\ nextId = 1
    /\ fetches = <<>>

\* with open(INGESTED_DATA_FILE, "w") as outfile: the file is truncated.
OpenOutput ==
    /\ CollectFrame
    /\ cpc = "start"
    /\ ingested' = OpenForWriting(ingested)
    /\ cpc' = "loop"
    /\ UNCHANGED <<before, urls, upos, nextId, fetches>>

\* The body of the for loop for a url whose fetcher returns text that
\* split_text cuts into n chunks (none for an empty text).
IngestContent ==
    /\ CollectFrame
    /\ cpc = "loop"
    /\ upos < Len(urls)
    /\ Fetcher(urls[upos + 1]) # "repository"
    /\ \E n \in 0..MaxChunks :
          /\ ingested' = ingested \o ChunkRecords(urls[upos + 1], nextId, n)
          /\ nextId' = nextId + n
          /\ fetches' = Append(fetches,
                [url |-> urls[upos + 1], fetcher |-> Fetcher(urls[upos + 1]),
                 result |-> "content", chunks |-> n])
    /\ upos' = upos + 1
    /\ UNCHANGED <<before, urls, cpc>>

\* The body of the for loop for a repository url: get_github_repo_content
\* returns None.
IngestRepository ==
    /\ CollectFrame
    /\ cpc = "loop"
    /\ upos < Len(urls)
    /\ Fetcher(urls[upos + 1]) = "repository"
    /\ fetches' = Append(fetches,
          [url |-> urls[upos + 1], fetcher |-> "repository",
           result |-> "none", chunks |-> 0])
    /\ upos' = upos + 1
    /\ UNCHANGED <<before, urls, ingested, cpc, nextId>>

\* The body of the for loop for a url whose fetch raises e: the fetcher
\* returns None when its except clause catches e, otherwise e leaves
\* ingest_urls.
IngestFailure ==
    /\ CollectFrame
    /\ cpc = "loop"
    /\ upos < Len(urls)
    /\ Fetcher(urls[upos + 1]) # "repository"
    /\ \E e \in Exceptions :
          IF Catches(Fetcher(urls[upos + 1]), e)
            THEN /\ fetches' = Append(fetches,
                       [url |-> urls[upos + 1],
                        fetcher |-> Fetcher(urls[upos + 1]),
                        result |-> "none", chunks |-> 0])
                 /\ upos' = upos + 1
                 /\ cpc' = cpc
            ELSE /\ fetches' = Append(fetches,
                       [url |-> urls[upos + 1],
                        fetcher |-> Fetcher(urls[upos + 1]),
                        result |-> "raised", chunks |-> 0])
                 /\ upos' = upos
                 /\ cpc' = "aborted"
    /\ UNCHANGED <<before, urls, ingested, nextId>>

\* The for loop is over: the file is closed.
FinishIngest ==
    /\ CollectFrame
    /\ cpc = "loop"
    /\ upos = Len(urls)
    /\ cpc' = "done"
    /\ UNCHANGED <<before, urls, upos, ingested, nextId, fetches>>

CollectNext ==
    \/ OpenOutput
    \/ IngestContent
    \/ IngestRepository
    \/ IngestFailure
    \/ FinishIngest

\* ------------------------------------------------------------------------
\* Retrieval tool state (VectorSearchTool.execute in app/agent.py)
\* ------------------------------------------------------------------------

\* neighbor.metadata.strings of the neighbors the service may return: a list
\* of (name, string_value) items, in any order, possibly with other items,
\* possibly without a 'text' item.
NeighborSet ==
    { <<[name |-> "text", string_value |-> "t1"],
        [name |-> "source", string_value |-> "s1"]>>,
      <<[name |-> "source", string_value |-> "s2"],
        [name |-> "title", string_value |-> "x2"],
        [name |-> "text", string_value |-> "t2"]>>,
      <<[name |-> "source", string_value |-> "s3"]>> }

\* What find_neighbors may return in response.nearest_neighbors.
ResultSets == UNION { [1..n -> NeighborSet] : n \in 0..MaxNeighbors }

Responses == UNION { [1..n -> ResultSets] : n \in 0..MaxSets }

HasString(strings, name) == \E k \in 1..Len(strings) : strings[k].name = name

\* next(item.string_value for item in strings if item.name == name)
StringValue(strings, name) ==
    strings[CHOOSE k \in 1..Len(strings) :
                /\ strings[k].name = name
                /\ \A m \in 1..(k - 1) : strings[m].name # name].string_value

\* f"Source: {source}\nContent: {text}"
Block(strings) ==
    <<"Source: ", StringValue(strings, "source"),
      "\nContent: ", StringValue(strings, "text")>>

\* The neighbors of every result set of the response.
RECURSIVE AllResultSets(_)
AllResultSets(resp) ==
    IF resp = <<>> THEN <<>> ELSE Head(resp) \o AllResultSets(Tail(resp))

\* if response.nearest_neighbors: ... response.nearest_neighbors[0].neighbors
NeighborsRead(resp) == IF resp = <<>> THEN <<>> ELSE resp[1]

\* "\n\n".join(results)
RECURSIVE Join(_)
Join(results) ==
    IF results = <<>> THEN <<>>
    ELSE IF Len(results) = 1 THEN results[1]
    ELSE results[1] \o <<"\n\n">> \o Join(Tail(results))

NoResults == <<"No relevant documents found in the knowledge base.">>

\* The return without the `if not results:` test.
RenderWithoutTest(results) == Join(results)

\* if not results: return "No relevant ..."; return "\n\n".join(results)
Render(results) == IF results = <<>> THEN NoResults ELSE Join(results)

RetrieveInit ==
    /\ rpc = "embed"
    /\ response = <<>>
    /\ result = <<>>
    /\ rerror = "none"

\* self.embedding_model.get_embeddings([query]) returns.
EmbedQuery ==
    /\ RetrieveFrame
    /\ rpc = "embed"
    /\ rpc' = "lookup"
    /\ UNCHANGED <<response, result, rerror>>

\* self.embedding_model.get_embeddings([query]) raises.
EmbedQueryFails ==
    /\ RetrieveFrame
    /\ rpc = "embed"
    /\ rpc' = "raised"
    /\ rerror' = "embedding"
    /\ UNCHANGED <<response, result>>

\* self.client.find_neighbors(request) returns a response.
FindNeighbors ==
    /\ RetrieveFrame
    /\ rpc = "lookup"
    /\ response' \in Responses
    /\ rpc' = "format"
    /\ UNCHANGED <<result, rerror>>

\* self.client.find_neighbors(request) raises.
FindNeighborsFails ==
    /\ RetrieveFrame
    /\ rpc = "lookup"
    /\ rpc' = "raised"
    /\ rerror' = "lookup"
    /\ UNCHANGED <<response, result>>

\* The loop over the neighbors and the return: next() raises StopIteration
\* at a neighbor without a 'text' or a 'source' item.
FormatResults ==
    /\ RetrieveFrame
    /\ rpc = "format"
    /\ LET neighbors == NeighborsRead(response)
       IN  IF \A k \in 1..Len(neighbors) :
                  HasString(neighbors[k], "text") /\ HasString(neighbors[k], "source")
             THEN /\ result' = Render([k \in 1..Len(neighbors) |-> Block(neighbors[k])])
                  /\ rpc' = "returned"
                  /\ rerror' = rerror
             ELSE /\ result' = result
                  /\ rpc' = "raised"
                  /\ rerror' = "StopIteration"
    /\ UNCHANGED response

RetrieveNext ==
    \/ EmbedQuery
    \/ EmbedQueryFails
    \/ FindNeighbors
    \/ FindNeighborsFails
    \/ FormatResults

\* ------------------------------------------------------------------------
\* The specifications: one stage runs, the others stand still
\* ------------------------------------------------------------------------
EmbedIdle ==
    /\ input = <<>> /\ batchSize = 1 /\ pos = 0 /\ batch = <<>> /\ out = <<>>
    /\ epc = "idle" /\ final = FALSE /\ attempt = 0 /\ delay = InitialDelay
    /\ sleeps = <<>> /\ embeddings = <<>> /\ j = 1 /\ totalCalls = 0
    /\ requests = <<>> /\ completed = <<>> /\ abandoned = <<>>
    /\ lastDone = NoOutcome

IndexIdle ==
    /\ bucketExists = FALSE /\ objects = [f \in Files |-> 0]
    /\ indexes = <<>> /\ endpoints = <<>> /\ now = 0 /\ ipc = "off"
    /\ cur = NoRun /\ prev = NoRun /\ myIndex = 0 /\ myEndpoint = 0
    /\ gcsUri = "" /\ runs = 0 /\ deployIds = <<>>

CollectIdle ==
    /\ urls = <<>> /\ upos = 0 /\ ingested = <<>> /\ cpc = "idle"
    /\ nextId = 1 /\ fetches = <<>> /\ before = <<>>

RetrieveIdle ==
    /\ rpc = "idle" /\ response = <<>> /\ result = <<>> /\ rerror = "none"

EmbedderInit == EmbedInit /\ IndexIdle /\ CollectIdle /\ RetrieveIdle

EmbedderSpec == EmbedderInit /\ [][EmbedNext]_vars

\* The run goes on: every read, service call, sleep and write comes to an
\* end, so a step that can be taken is taken.
EmbedderFairSpec == EmbedderSpec /\ WF_vars(EmbedNext)

IndexerInit == IndexInit /\ EmbedIdle /\ CollectIdle /\ RetrieveIdle

IndexerSpec == IndexerInit /\ [][IndexNext]_vars

CollectorInit == CollectInit /\ EmbedIdle /\ IndexIdle /\ RetrieveIdle

CollectorSpec == CollectorInit /\ [][CollectNext]_vars

RetrievalInit == RetrieveInit /\ EmbedIdle /\ IndexIdle /\ CollectIdle

RetrievalSpec == RetrievalInit /\ [][RetrieveNext]_vars

\* ------------------------------------------------------------------------
\* Properties of the Embedder
\* ------------------------------------------------------------------------
RECURSIVE Flatten(_)
Flatten(ss) == IF ss = <<>> THEN <<>> ELSE Head(ss) \o Flatten(Tail(ss))

Range(s) == {s[k] : k \in 1..Len(s)}

Ceil(n, b) == (n + b - 1) \div b

\* Service calls of the run that raised.
FailedCalls ==
    totalCalls - Len(completed) - (IF epc = "write" THEN 1 ELSE 0)

\* C1: a batch whose service call fails on every attempt costs exactly 5
\* calls with sleeps of 1, 2, 4, 8 and 16 seconds and is then abandoned; the
\* run does not crash, the failures so far of a batch in hand follow the same
\* schedule, and a finished run has sent every input record in some batch,
\* whatever was abandoned on the way.
C1_RetryThenAbandon ==
    /\ epc # "crashed"
    /\ (lastDone.calls > 0 /\ ~lastDone.ok) =>
          /\ lastDone.calls = 5
          /\ lastDone.sleeps = <<1, 2, 4, 8, 16>>
          /\ lastDone.ids \in Range(abandoned)
    /\ (epc = "call") =>
          /\ attempt < 5
          /\ sleeps = SubSeq(<<1, 2, 4, 8, 16>>, 1, attempt)
    /\ (epc = "done") => Flatten(requests) = Ids(input)

\* An abandoned batch is followed by a later batch that was processed.
C1_Witness ==
    /\ abandoned # <<>>
    /\ ~lastDone.ok /\ lastDone.calls = 5
    /\ completed # <<>>
    /\ epc = "done"
    /\ Len(requests) >= 3
    /\ requests[2] \in Range(abandoned)
    /\ requests[3] \in Range(completed)

\* C2: a batch is all-or-nothing: no record of an abandoned batch is ever in
\* the output, every record of a batch written in full is in the output, and
\* at the end of the run the output holds exactly the input records that are
\* in no abandoned batch.
C2_AllOrNothing ==
    /\ \A a \in Range(abandoned) : Range(a) \cap Range(Ids(out)) = {}
    /\ \A c \in Range(completed) : Range(c) \subseteq Range(Ids(out))
    /\ (epc = "done") =>
          /\ Range(Ids(out)) =
                Range(Ids(input)) \ UNION {Range(a) : a \in Range(abandoned)}
          /\ Len(out) = Len(Flatten(completed))
          /\ Len(requests) = Len(completed) + Len(abandoned)

\* 7 records, batch size 5, the second batch failing all retries.
C2_Witness ==
    /\ epc = "done"
    /\ Len(input) = 7 /\ batchSize = 5
    /\ abandoned = << <<6, 7>> >>
    /\ Ids(out) = <<1, 2, 3, 4, 5>>
    /\ \A k \in 1..5 : out[k].embedding = Vector(input[k].text)

\* C3: the output is a subsequence of the input: the ids written are
\* strictly increasing (input order, nothing twice) and each record written
\* is the input record of that id.
C3_OutputSubsequence ==
    /\ \A k \in 1..Len(out) :
          /\ out[k].id \in 1..Len(input)
          /\ out[k].id = input[out[k].id].id
          /\ out[k].text = input[out[k].id].text
    /\ \A k \in 1..(Len(out) - 1) : out[k].id < out[k + 1].id

\* Records of three batches, the middle one abandoned, are in the output.
C3_Witness ==
    /\ epc = "done"
    /\ Len(completed) >= 2
    /\ abandoned # <<>>
    /\ batchSize >= 2
    /\ \E k \in 1..(Len(out) - 1) : out[k + 1].id > out[k].id + 1

C9_BatchPartition ==
    /\ Flatten(requests) = SubSeq(Ids(input), 1, Len(Flatten(requests)))
    /\ \A k \in 1..Len(requests) :
          /\ Len(requests[k]) >= 1
          /\ Len(requests[k]) <= batchSize
          /\ k < Len(requests) => Len(requests[k]) = batchSize
    /\ (epc = "done") =>
          /\ Flatten(requests) = Ids(input)
          /\ Len(requests) = Ceil(Len(input), batchSize)
          /\ (Len(input) % batchSize # 0) =>
                Len(requests[Len(requests)]) = Len(input) % batchSize
          /\ (FailedCalls = 0) => totalCalls = Ceil(Len(input), batchSize)

\* 7 records with batch size 5: two requests, of sizes 5 and 2.
C9_Witness ==
    /\ epc = "done"
    /\ Len(input) = 7 /\ batchSize = 5
    /\ FailedCalls = 0
    /\ totalCalls = 2
    /\ requests = << <<1, 2, 3, 4, 5>>, <<6, 7>> >>

\* C20: generate_embeddings terminates; it never issues more than
\* 5 * ceil(N/B) embedding-service calls; and when it has terminated every
\* input record has been either written or dropped with its batch.
C20_TerminatesWithinCallBudget ==
    /\ <>(epc = "done")
    /\ [](totalCalls <= 5 * Ceil(Len(input), batchSize))
    /\ []((epc = "done") =>
            \A i \in 1..Len(input) :
                (input[i].id \in Range(Ids(out)))
                    # (input[i].id \in Range(Flatten(abandoned))))

C20_Witness ==
    /\ epc = "done"
    /\ Len(input) = 3
    /\ batchSize = 2
    /\ totalCalls = 10
    /\ out = <<>>
    /\ Flatten(abandoned) = <<1, 2, 3>>

\* C21: get_embeddings_with_retry stops at the first success: the call that
\* succeeds is try k of its batch, 1 <= k <= 5, after k - 1 sleeps of
\* 1, 2, ..., 2^(k-2) seconds; the response is the one of that call; while the
\* batch is written no further call is made and turn j writes record j with
\* vector j of the response; and no later request carries a record of an
\* earlier one.
C21_StopsAtFirstSuccess ==
    [][ /\ (requests' = requests) =>
              totalCalls' - totalCalls = attempt' - attempt
        /\ (requests' # requests) =>
              /\ attempt' = 0
              /\ totalCalls' = totalCalls
              /\ requests' = Append(requests, Ids(batch'))
              /\ Range(Ids(batch')) \cap Range(Flatten(requests)) = {}
        /\ (epc = "call" /\ epc' = "write") =>
              /\ attempt' \in 1..5
              /\ attempt' = attempt + 1
              /\ sleeps' = [i \in 1..(attempt' - 1) |-> 2 ^ (i - 1)]
              /\ sleeps' = sleeps
              /\ embeddings' = [k \in 1..Len(batch) |-> Vector(batch[k].text)]
              /\ j' = 1
              /\ batch' = batch
        /\ (epc = "write") =>
              /\ attempt' = attempt
              /\ totalCalls' = totalCalls
              /\ epc' # "call"
              /\ out' = Append(out, [id |-> batch[j].id, text |-> batch[j].text,
                                     embedding |-> embeddings[j]])
              /\ (epc' = "write") => (j' = j + 1 /\ j < Len(batch))
              /\ (epc' # "write") =>
                    /\ j = Len(batch)
                    /\ lastDone' = [ok |-> TRUE, calls |-> attempt,
                                    sleeps |-> [i \in 1..(attempt - 1) |-> 2 ^ (i - 1)],
                                    ids |-> Ids(batch)]
      ]_vars

\* The fifth try succeeded after sleeps of 1, 2, 4 and 8 seconds and the
\* second record of the batch is about to be written.
C21_Witness ==
    /\ epc = "write"
    /\ attempt = 5
    /\ sleeps = <<1, 2, 4, 8>>
    /\ Len(batch) >= 2
    /\ j = 2
    /\ out[Len(out)].id = batch[1].id
    /\ out[Len(out)].embedding = embeddings[1]
    /\ completed # <<>>

\* ------------------------------------------------------------------------
\* Properties of the Indexer
\* ------------------------------------------------------------------------
Named(list, name) == {k \in 1..Len(list) : list[k].name = name}

DeployedOn(ix, endpoint) ==
    \E k \in 1..Len(ix.deployed) : ix.deployed[k].endpoint = endpoint

Creations == {"create_index", "create_endpoint"}

\* C4: when a run that started with no index and no endpoint of the
\* configured names has returned, the next run with the same display names
\* and the same input file creates nothing, uploads nothing and deploys
\* nothing, does not fail, and returns the endpoint the first run returned;
\* the first run created the index and the endpoint, and there is exactly
\* one index and one endpoint of those names.
C4_SecondRunReuses ==
    (/\ prev.status = "returned" /\ prev.fresh
     /\ cur.status # "none"
     /\ cur.idx = prev.idx /\ cur.ep = prev.ep /\ cur.file = prev.file)
    => /\ Creations \subseteq prev.ops
       /\ cur.ops = {}
       /\ cur.status # "raised"
       /\ (cur.status = "returned") => cur.endpoint = prev.endpoint
       /\ Cardinality(Named(indexes, cur.idx)) = 1
       /\ Cardinality(Named(endpoints, cur.ep)) = 1

\* The second of two such runs has returned.
C4_Witness ==
    /\ prev.status = "returned" /\ prev.fresh
    /\ cur.status = "returned"
    /\ cur.idx = prev.idx /\ cur.ep = prev.ep /\ cur.file = prev.file
    /\ "upload" \in prev.ops
    /\ cur.endpoint = prev.endpoint
    /\ Len(indexes) = 1 /\ Len(endpoints) = 1

\* C5: the lookup step of create_and_deploy_index, taken when an index of
\* the configured display name is deployed, ends the call: it returns the
\* endpoint of the first deployment of the first such index, and no index
\* or endpoint is created or changed, no endpoint is looked up and nothing
\* is deployed, whatever gcs_uri is.
C5_DeployedShortCircuit ==
    [][ (/\ ipc = "find_index"
         /\ cur' # cur
         /\ \E k \in Named(indexes, cur.idx) : indexes[k].deployed # <<>>)
        => LET first == CHOOSE k \in Named(indexes, cur.idx) :
                            \A h \in Named(indexes, cur.idx) : k <= h
           IN  /\ indexes[first].deployed # <<>>
               /\ ipc' = "idle"
               /\ cur'.status = "returned"
               /\ cur'.endpoint = indexes[first].deployed[1].endpoint
               /\ cur'.ops = cur.ops
               /\ indexes' = indexes
               /\ endpoints' = endpoints
               /\ deployIds' = deployIds ]_vars

\* The call returned at the lookup although its gcs_uri is not the one the
\* index was built from and the object at it was uploaded by this run.
C5_Witness ==
    /\ cur.found = "deployed"
    /\ cur.status = "returned"
    /\ myIndex # 0
    /\ indexes[myIndex].uri # gcsUri
    /\ "upload" \in cur.ops
    /\ cur.ep # prev.ep

\* C7: when create_and_deploy_index has returned, an index of the
\* configured display name exists and is deployed on the endpoint returned,
\* which is an endpoint of the project.
C7_ReturnedMeansDeployed ==
    (cur.status = "returned") =>
        /\ \E k \in Named(indexes, cur.idx) :
              DeployedOn(indexes[k], cur.endpoint)
        /\ \E k \in 1..Len(endpoints) : endpoints[k].id = cur.endpoint

\* A call has returned while an index of another display name exists too.
C7_Witness ==
    /\ cur.status = "returned"
    /\ "deploy" \in cur.ops
    /\ Len(indexes) = 2
    /\ indexes[1].name # cur.idx
    /\ indexes[1].deployed # <<>>

\* C10: a call that finds the index of the configured display name not
\* deployed creates no index; when it returns it has deployed that index on
\* the endpoint it returns, and there is a single index of that name.
C10_UndeployedIndexReused ==
    /\ \A name \in IndexNames : Cardinality(Named(indexes, name)) <= 1
    /\ (cur.found = "undeployed") =>
          /\ "create_index" \notin cur.ops
          /\ Cardinality(Named(indexes, cur.idx)) = 1
          /\ myIndex \in Named(indexes, cur.idx)
          /\ (cur.status = "returned") =>
                /\ "deploy" \in cur.ops
                /\ DeployedOn(indexes[myIndex], cur.endpoint)

\* A rerun after a run that failed between index creation and deployment.
C10_Witness ==
    /\ prev.status = "raised"
    /\ "create_index" \in prev.ops
    /\ prev.idx = cur.idx
    /\ cur.found = "undeployed"
    /\ cur.status = "returned"
    /\ Len(indexes) = 1
    /\ indexes[1].deployed # <<>>

\* C11: a run in which index creation, endpoint creation or deployment
\* failed has ended with the exception, at the step that failed, and what
\* the run made before that step is still there: the uploaded object, the
\* created bucket, the created index, the created endpoint.
C11_FailureEndsRunKeepsResources ==
    (cur.status = "raised") =>
        /\ ipc = "idle"
        /\ \/ cur.ops \cap {"create_index", "list_endpoints",
                            "create_endpoint", "deploy"} = {}
           \/ /\ "list_endpoints" \in cur.ops
              /\ cur.ops \cap {"create_endpoint", "deploy"} = {}
           \/ "deploy" \in cur.ops
        /\ ("upload" \in cur.ops) =>
              objects[DestinationPath(cur.file)] = cur.data
        /\ ("create_bucket" \in cur.ops) => bucketExists
        /\ ("create_index" \in cur.ops) =>
              \E k \in Named(indexes, cur.idx) :
                  /\ indexes[k].uri = gcsUri
                  /\ indexes[k].deployed = <<>>
        /\ ("create_endpoint" \in cur.ops) =>
              Named(endpoints, cur.ep) # {}

\* Deployment failed in a run that uploaded the file and created the index
\* and the endpoint.
C11_Witness ==
    /\ cur.status = "raised"
    /\ {"upload", "create_index", "create_endpoint", "deploy"}
          \subseteq cur.ops
    /\ Len(indexes) = 1 /\ Len(endpoints) = 1
    /\ indexes[1].deployed = <<>>
    /\ objects[gcsUri] # 0

\* C12: upload_data_to_gcs creates the bucket exactly when it is absent,
\* uploads the local file exactly when no object is at the destination path
\* and leaves the object alone when one is there, whatever its content; it
\* returns the destination path in both cases; and no step ever changes or
\* removes an object that exists.
C12_UploadOnlyWhenAbsent ==
    [][ /\ \A f \in Files : (objects[f] # 0) => objects'[f] = objects[f]
        /\ (ipc = "upload" /\ ipc' # ipc) =>
              LET path == DestinationPath(cur.file)
                  done == cur'.ops \ cur.ops
              IN  /\ bucketExists'
                  /\ ("create_bucket" \in done) <=> ~bucketExists
                  /\ ("upload" \in done) <=> (objects[path] = 0)
                  /\ (objects[path] = 0) => objects'[path] = cur.data
                  /\ \A f \in Files \ {path} : objects'[f] = objects[f]
                  /\ gcsUri' = path ]_vars

\* The upload was skipped although the object at the destination path holds
\* another content than the local file.
C12_Witness ==
    /\ ipc = "find_index"
    /\ cur.ops = {}
    /\ objects[gcsUri] # 0
    /\ objects[gcsUri] # cur.data
    /\ gcsUri = DestinationPath(cur.file)

\* C13: any two deploy_index calls of the pipeline use distinct deployment
\* identifiers.
C13_DeployIdsDistinct ==
    \A a, b \in 1..Len(deployIds) : (a # b) => deployIds[a] # deployIds[b]

\* ------------------------------------------------------------------------
\* Properties of the Collector
\* ------------------------------------------------------------------------
\* C6: a fetch failure for one url is caught for that url and treated as no
\* content: no fetch lets its exception out, and the run is never aborted.
C6_FetchFailureContained ==
    /\ cpc # "aborted"
    /\ \A k \in 1..Len(fetches) : fetches[k].result # "raised"

\* C14: each url is dispatched by its domain: a domain containing
\* youtube.com goes to the transcript fetcher, otherwise a domain containing
\* github.com goes to the unimplemented repository fetcher (no content, no
\* records), every other url goes to the page scraper; one fetcher is
\* called per url processed.
C14_DispatchByDomain ==
    /\ Len(fetches) = IF cpc = "aborted" THEN upos + 1 ELSE upos
    /\ \A k \in 1..Len(fetches) :
          LET f == fetches[k]
              video == Contains(urls[k].domain, <<"youtube", "com">>)
              repo == Contains(urls[k].domain, <<"github", "com">>)
          IN  /\ f.url = urls[k]
              /\ video => f.fetcher = "transcript"
              /\ (~video /\ repo) =>
                    /\ f.fetcher = "repository"
                    /\ f.result = "none"
                    /\ f.chunks = 0
                    /\ (cpc # "start") =>
                          \A r \in 1..Len(ingested) : ingested[r].source # urls[k]
              /\ (~video /\ ~repo) => f.fetcher = "scrape"

C14_Witness ==
    /\ cpc = "done"
    /\ { fetches[k].fetcher : k \in 1..Len(fetches) } =
          {"transcript", "repository", "scrape"}
    /\ \E k \in 1..Len(fetches) :
          /\ fetches[k].url.domain = <<"google", "github", "io">>
          /\ fetches[k].chunks > 0

\* The sources of the records the first k fetches produced, in order.
RECURSIVE SourcesOf(_)
SourcesOf(k) ==
    IF k = 0 THEN <<>>
    ELSE SourcesOf(k - 1) \o [c \in 1..fetches[k].chunks |-> urls[k]]

\* C15: once the run has opened the output file, nothing of what the file
\* held before is in it, and its records are the records of the urls
\* processed so far, in the order of the url list, each with the url it was
\* produced from as source.
C15_RewrittenInUrlOrder ==
    (cpc # "start") =>
        /\ \A r \in 1..Len(ingested) :
              \A o \in 1..Len(before) : ingested[r] # before[o]
        /\ [r \in 1..Len(ingested) |-> ingested[r].source] = SourcesOf(Len(fetches))

C15_Witness ==
    /\ cpc = "done"
    /\ before # <<>>
    /\ Len(ingested) >= 3
    /\ ingested[1].source # ingested[Len(ingested)].source
    /\ \E k \in 1..Len(fetches) : fetches[k].chunks = 0

\* C16: all record ids of a run are distinct.
C16_IdsDistinct ==
    (cpc # "start") =>
        \A a, b \in 1..Len(ingested) :
            (a # b) => ingested[a].id # ingested[b].id

C16_Witness ==
    /\ cpc = "done"
    /\ Len(ingested) >= 3
    /\ \E a, b \in 1..Len(ingested) :
          a # b /\ ingested[a].source = ingested[b].source
    /\ \E a, b \in 1..Len(ingested) : ingested[a].source # ingested[b].source

\* ------------------------------------------------------------------------
\* Properties of the retrieval tool
\* ------------------------------------------------------------------------
\* The Source / Content blocks of a list of neighbors, joined.
BlocksOf(neighbors) ==
    Join([k \in 1..Len(neighbors) |->
            <<"Source: ", StringValue(neighbors[k], "source"),
              "\nContent: ", StringValue(neighbors[k], "text")>>])

C19_NoResultsMessage ==
    (rpc \in {"returned", "raised"} /\ rerror \notin {"embedding", "lookup"}
        /\ \A k \in 1..Len(response) : response[k] = <<>>) =>
        /\ rpc = "returned"
        /\ result = <<"No relevant documents found in the knowledge base.">>

C19_Witness ==
    /\ rpc = "returned"
    /\ response = << <<>> >>
    /\ result = NoResults

====
